---- MODULE Spec2Model ----
(***************************************************************************)
(* K'artz Backend: the real-time chat relay of server.js over the Chat and *)
(* Message collections of models/Message.js.                               *)
(*                                                                         *)
(* server.js holds two definitions of the server (lines 1-255 and lines    *)
(* 256-410).  They differ in the send_message handler: the first emits a   *)
(* fallback reply in its catch block and defaults the sender name, the     *)
(* second does neither.  `version` says which definition is running.       *)
(*                                                                         *)
(* Every `await` of a handler is one step: the awaited call takes effect   *)
(* and the code up to the next await runs with it (node runs the code      *)
(* between two awaits without interruption).  Steps of different handlers  *)
(* interleave freely.                                                      *)
(***************************************************************************)
EXTENDS Integers, Sequences, FiniteSets, TLC

(* ----------------------------- bounds ---------------------------------- *)

\* send_message events received over the whole run
MaxEvents == 2

\* largest value of the millisecond clock (Date.now())
MaxClock == 1

(* ----------------------------- inputs ---------------------------------- *)

\* socket ids of the connections
Conns == {"s1", "s2"}

\* payloads of send_message; "" stands for a missing or empty field
\* (both are falsy in the handler's test)
Payloads ==
    { [uid |-> "u1", email |-> "a@b.com", content |-> "Hello", senderName |-> "Ann"],
      [uid |-> "u1", email |-> "x@y.com", content |-> "More info", senderName |-> ""],
      [uid |-> "u2", email |-> "a@b.com", content |-> "Help", senderName |-> "Ann"],
      [uid |-> "",   email |-> "a@b.com", content |-> "Hello", senderName |-> "Ann"],
      [uid |-> "u1", email |-> "",        content |-> "Hello", senderName |-> "Ann"],
      [uid |-> "u1", email |-> "a@b.com", content |-> "",      senderName |-> "Ann"] }

\* texts the generator can return (response.text()); it can return ""
GenTexts == {"", "Hi there"}

\* uids a history request can carry
HistoryUids == {"u1", "u2"}

(* ------------------------- program constants --------------------------- *)

ApologyText ==
    "I apologize, I am having trouble processing your request right now. Please try again later."

AssistantName == "K'artz Assistant"

SystemErrorName == "System Error"

DefaultSenderName == "Client"

DefaultStatus == "ai_active"

\* the local variable `chat` before Chat.findOne has answered, and the
\* result of an unsuccessful findOne
NoChat == 0

\* no Message written (yet) by a handler
NoMessage == 0

(* ------------------------------ state ---------------------------------- *)

VARIABLES
    version,    \* 1: first definition of server.js, 2: second definition
    clock,      \* Date.now()
    chats,      \* the Chat collection, in insertion order; _id = index
    messages,   \* the Message collection, in insertion order; _id = index
    handlers,   \* one record per send_message event, in arrival order
    connected,  \* the sockets still connected
    received,   \* received[s]: the receive_message events delivered to socket s
    hreq,       \* the GET /api/chat-history request in progress
    hres        \* the last response of the history route, forgotten at the
                \* next store write

vars == <<version, clock, chats, messages, handlers, connected, received,
          hreq, hres>>

store == <<chats, messages>>

history == <<hreq, hres>>

(* --------------------------- pure helpers ------------------------------ *)

\* a validation that forgets the content:  !data.uid || !data.email
ValidWithoutContent(data) == data.uid # "" /\ data.email # ""

\* !data.uid || !data.email || !data.content
Valid(data) == data.uid # "" /\ data.email # "" /\ data.content # ""

\* ObjectId.toString(): the id as a string, distinct from every
\* 'temp_error_...' id
ObjectIdToString(oid) == <<"oid", oid>>

\* 'temp_error_' + Date.now()
TempErrorId(now) == <<"temp_error_", now>>

\* Chat.findOne({ userId: uid }): the ids of the matching documents
ChatsOf(cs, uid) == { i \in 1..Len(cs) : cs[i].userId = uid }

\* a Chat schema without `unique: true`: no insert is rejected
DuplicateKeyNoIndex(cs, uid) == FALSE

\* the unique index on Chat.userId rejects a second document with the uid
DuplicateKey(cs, uid) == ChatsOf(cs, uid) # {}

\* senderName of the user Message: first definition defaults it
UserSenderName(v, data) ==
    IF v = 1 /\ data.senderName = "" THEN DefaultSenderName ELSE data.senderName

\* mongoose validation of a Message document: content and senderName are
\* required Strings, and a required String rejects ""
MessageValid(doc) == doc.content # "" /\ doc.senderName # ""

\* the payload of receive_message built from a saved assistant Message
FormatMessage(id, doc) ==
    [id |-> ObjectIdToString(id), content |-> doc.content,
     senderType |-> doc.senderType, senderName |-> doc.senderName,
     timestamp |-> doc.createdAt]

\* the payload the first definition's catch block emits
FallbackReply(now) ==
    [id |-> TempErrorId(now), content |-> ApologyText, senderType |-> "ai",
     senderName |-> SystemErrorName, timestamp |-> now]

\* whether the catch block of definition v emits a reply
CatchEmits(v) == v = 1

\* an emit that still reaches a socket after its disconnection
EmitTargetsAfterDisconnect(h, conn) == {h.conn}

\* io.emit in place of socket.emit: every connected socket
EmitTargetsBroadcast(h, conn) == conn

\* the sockets an emit of handler h reaches: socket.emit reaches the
\* handler's own socket, and nothing once that socket has disconnected
EmitTargets(h, conn) == {h.conn} \cap conn

\* received after handler e emits reply
Deliver(recv, targets, e, reply) ==
    [s \in Conns |-> IF s \in targets THEN recv[s] \cup {[ev |-> e, msg |-> reply]}
                     ELSE recv[s]]

(* ------------------------------ Init ----------------------------------- *)

NoReply ==
    [id |-> <<"none", 0>>, content |-> "", senderType |-> "", senderName |-> "",
     timestamp |-> 0]

\* the handlers between their first await and their end
InFlight == { i \in 1..Len(handlers) : handlers[i].pc \notin {"done", "dropped"} }

NewHandler(c, data) ==
    [conn |-> c, data |-> data,
     pc |-> IF Valid(data) THEN "findOne" ELSE "dropped",
     chat |-> NoChat,          \* the local variable chat (its _id)
     t |-> 0,                  \* the Date.now() the pending write carries
     aiText |-> "",            \* the local variable aiText
     gen |-> "none",           \* none | started | ok | failed
     failedAt |-> "none",      \* the step whose await threw
     error |-> "none",         \* what it threw: store | duplicate | validation
                               \* | generation
     idle |-> InFlight = {},   \* no other handler was in flight on arrival
     writes |-> 0,             \* store writes done for this event
     userMsg |-> NoMessage,    \* _id of the user Message written
     aiMsg |-> NoMessage,      \* _id of the assistant Message written
     emits |-> 0,              \* socket.emit('receive_message', ...) calls made
     reply |-> NoReply]        \* the payload of the last such call

IdleRequest == [pc |-> "idle", uid |-> "", chat |-> NoChat]

NoResponse == [uid |-> "", status |-> 0, body |-> <<>>]

Init ==
    /\ version \in {1, 2}
    /\ clock = 0
    /\ chats = <<>>
    /\ messages = <<>>
    /\ handlers = <<>>
    /\ connected = Conns
    /\ received = [s \in Conns |-> {}]
    /\ hreq = IdleRequest
    /\ hres = NoResponse

(* -------------------- the send_message handler ------------------------- *)

\* the catch block: handler h failed at step `at` with error `err`
Caught(e, h, at, err) ==
    LET h2 == [h EXCEPT !.pc = "done", !.failedAt = at, !.error = err,
                        !.gen = IF at = "generate" THEN "failed" ELSE @,
                        !.emits = IF CatchEmits(version) THEN @ + 1 ELSE @,
                        !.reply = IF CatchEmits(version) THEN FallbackReply(clock) ELSE @]
    IN /\ handlers' = [handlers EXCEPT ![e] = h2]
       /\ received' = IF CatchEmits(version)
                      THEN Deliver(received, EmitTargets(h, connected), e,
                                   FallbackReply(clock))
                      ELSE received

\* socket.on('send_message', ...) up to the first await (or the return)
Arrive(c, data) ==
    /\ c \in connected
    /\ Len(handlers) < MaxEvents
    /\ handlers' = Append(handlers, NewHandler(c, data))
    /\ UNCHANGED <<version, clock, store, connected, received, history>>

\* await Chat.findOne({ userId: data.uid })
FindOne(e) ==
    LET h == handlers[e] IN
    /\ h.pc = "findOne"
    /\ \/ \E found \in (IF ChatsOf(chats, h.data.uid) = {} THEN {NoChat}
                        ELSE ChatsOf(chats, h.data.uid)) :
            /\ handlers' = [handlers EXCEPT ![e] =
                   [h EXCEPT !.chat = found, !.t = clock,
                             !.pc = IF found = NoChat THEN "create" ELSE "save"]]
            /\ received' = received
       \/ Caught(e, h, "findOne", "store")
    /\ UNCHANGED <<version, clock, store, connected, history>>

\* await Chat.create({ userId, userEmail, status: 'ai_active' })
CreateChat(e) ==
    LET h == handlers[e] IN
    /\ h.pc = "create"
    /\ \/ /\ ~DuplicateKey(chats, h.data.uid)
          /\ chats' = Append(chats, [userId |-> h.data.uid, userEmail |-> h.data.email,
                                      status |-> DefaultStatus, lastMessageAt |-> h.t,
                                      createdAt |-> h.t])
          /\ handlers' = [handlers EXCEPT ![e] =
                 [h EXCEPT !.chat = Len(chats) + 1, !.t = clock, !.pc = "userMsg",
                           !.writes = @ + 1]]
          /\ hres' = NoResponse
          /\ UNCHANGED received
       \/ /\ DuplicateKey(chats, h.data.uid)
          /\ Caught(e, h, "create", "duplicate")
          /\ UNCHANGED <<chats, hres>>
       \/ /\ Caught(e, h, "create", "store")
          /\ UNCHANGED <<chats, hres>>
    /\ UNCHANGED <<version, clock, messages, connected, hreq>>

\* a save that also refreshes the contact address from the event
SaveChatWithEmail(e) ==
    LET h == handlers[e] IN
    /\ h.pc = "save"
    /\ \/ /\ chats' = [chats EXCEPT ![h.chat].lastMessageAt = h.t,
                                     ![h.chat].userEmail = h.data.email]
          /\ handlers' = [handlers EXCEPT ![e] =
                 [h EXCEPT !.t = clock, !.pc = "userMsg", !.writes = @ + 1]]
          /\ hres' = NoResponse
          /\ UNCHANGED received
       \/ /\ Caught(e, h, "save", "store")
          /\ UNCHANGED <<chats, hres>>
    /\ UNCHANGED <<version, clock, messages, connected, hreq>>

\* a save that forgot the assignment to lastMessageAt: nothing is modified
SaveChatWithoutTouch(e) ==
    LET h == handlers[e] IN
    /\ h.pc = "save"
    /\ \/ /\ handlers' = [handlers EXCEPT ![e] =
                 [h EXCEPT !.t = clock, !.pc = "userMsg", !.writes = @ + 1]]
          /\ hres' = NoResponse
          /\ UNCHANGED <<chats, received>>
       \/ /\ Caught(e, h, "save", "store")
          /\ UNCHANGED <<chats, hres>>
    /\ UNCHANGED <<version, clock, messages, connected, hreq>>

\* chat.lastMessageAt = Date.now(); await chat.save()
SaveChat(e) ==
    LET h == handlers[e] IN
    /\ h.pc = "save"
    /\ \/ /\ chats' = [chats EXCEPT ![h.chat].lastMessageAt = h.t]
          /\ handlers' = [handlers EXCEPT ![e] =
                 [h EXCEPT !.t = clock, !.pc = "userMsg", !.writes = @ + 1]]
          /\ hres' = NoResponse
          /\ UNCHANGED received
       \/ /\ Caught(e, h, "save", "store")
          /\ UNCHANGED <<chats, hres>>
    /\ UNCHANGED <<version, clock, messages, connected, hreq>>

UserMessage(v, h) ==
    [chatId |-> h.chat, content |-> h.data.content, senderType |-> "user",
     senderName |-> UserSenderName(v, h.data), senderUid |-> h.data.uid,
     createdAt |-> h.t]

\* the user write fired without its await: a failed write no longer
\* reaches the catch block and the handler goes on to the generation call
SaveUserMsgNotAwaited(e) ==
    LET h == handlers[e]
        doc == UserMessage(version, h) IN
    /\ h.pc = "userMsg"
    /\ \/ /\ MessageValid(doc)
          /\ messages' = Append(messages, doc)
          /\ handlers' = [handlers EXCEPT ![e] =
                 [h EXCEPT !.userMsg = Len(messages) + 1, !.pc = "generate",
                           !.gen = "started", !.writes = @ + 1]]
          /\ hres' = NoResponse
       \/ /\ handlers' = [handlers EXCEPT ![e] =
                 [h EXCEPT !.pc = "generate", !.gen = "started"]]
          /\ UNCHANGED <<messages, hres>>
    /\ UNCHANGED <<version, clock, chats, connected, received, hreq>>

\* await Message.create({ ..., senderType: 'user', ... })
SaveUserMsg(e) ==
    LET h == handlers[e]
        doc == UserMessage(version, h) IN
    /\ h.pc = "userMsg"
    /\ \/ /\ MessageValid(doc)
          /\ messages' = Append(messages, doc)
          /\ handlers' = [handlers EXCEPT ![e] =
                 [h EXCEPT !.userMsg = Len(messages) + 1, !.pc = "generate",
                           !.gen = "started", !.writes = @ + 1]]
          /\ hres' = NoResponse
          /\ UNCHANGED received
       \/ /\ Caught(e, h, "userMsg",
                    IF MessageValid(doc) THEN "store" ELSE "validation")
          /\ UNCHANGED <<messages, hres>>
    /\ UNCHANGED <<version, clock, chats, connected, hreq>>

\* a generation failure handled by persisting the apology as the reply
GeneratePersistsFallback(e) ==
    LET h == handlers[e] IN
    /\ h.pc = "generate"
    /\ \/ \E text \in GenTexts :
            handlers' = [handlers EXCEPT ![e] =
                [h EXCEPT !.aiText = text, !.gen = "ok", !.t = clock, !.pc = "aiMsg"]]
       \/ handlers' = [handlers EXCEPT ![e] =
                [h EXCEPT !.aiText = ApologyText, !.gen = "failed", !.t = clock,
                          !.pc = "aiMsg"]]
    /\ UNCHANGED <<version, clock, store, connected, received, history>>

\* await model.generateContent(fullPrompt); result.response; response.text()
Generate(e) ==
    LET h == handlers[e] IN
    /\ h.pc = "generate"
    /\ \/ \E text \in GenTexts :
            /\ handlers' = [handlers EXCEPT ![e] =
                   [h EXCEPT !.aiText = text, !.gen = "ok", !.t = clock, !.pc = "aiMsg"]]
            /\ received' = received
       \/ Caught(e, h, "generate", "generation")
    /\ UNCHANGED <<version, clock, store, connected, history>>

AiMessage(h) ==
    [chatId |-> h.chat, content |-> h.aiText, senderType |-> "ai",
     senderName |-> AssistantName, senderUid |-> "", createdAt |-> h.t]

\* the reply emitted from the unsaved document, before the write is
\* awaited: a write that fails leaves a reply with no Message behind it
SaveAiMsgEmitsFirst(e) ==
    LET h == handlers[e]
        doc == AiMessage(h)
        out == FormatMessage(Len(messages) + 1, doc) IN
    /\ h.pc = "aiMsg"
    /\ received' = Deliver(received, EmitTargets(h, connected), e, out)
    /\ \/ /\ MessageValid(doc)
          /\ messages' = Append(messages, doc)
          /\ handlers' = [handlers EXCEPT ![e] =
                 [h EXCEPT !.aiMsg = Len(messages) + 1, !.pc = "done",
                           !.writes = @ + 1, !.emits = @ + 1, !.reply = out]]
          /\ hres' = NoResponse
       \/ /\ handlers' = [handlers EXCEPT ![e] =
                 [h EXCEPT !.pc = "done", !.failedAt = "aiMsg", !.error = "store",
                           !.emits = @ + 1, !.reply = out]]
          /\ UNCHANGED <<messages, hres>>
    /\ UNCHANGED <<version, clock, chats, connected, hreq>>

\* await Message.create({ ..., senderType: 'ai', ... }); socket.emit(...)
SaveAiMsg(e) ==
    LET h == handlers[e]
        doc == AiMessage(h) IN
    /\ h.pc = "aiMsg"
    /\ \/ /\ MessageValid(doc)
          /\ messages' = Append(messages, doc)
          /\ handlers' = [handlers EXCEPT ![e] =
                 [h EXCEPT !.aiMsg = Len(messages) + 1, !.pc = "done",
                           !.writes = @ + 1, !.emits = @ + 1,
                           !.reply = FormatMessage(Len(messages) + 1, doc)]]
          /\ received' = Deliver(received, EmitTargets(h, connected), e,
                                 FormatMessage(Len(messages) + 1, doc))
          /\ hres' = NoResponse
       \/ /\ Caught(e, h, "aiMsg",
                    IF MessageValid(doc) THEN "store" ELSE "validation")
          /\ UNCHANGED <<messages, hres>>
    /\ UNCHANGED <<version, clock, chats, connected, hreq>>

\* socket.on('disconnect', ...)
Disconnect(c) ==
    /\ c \in connected
    /\ connected' = connected \ {c}
    /\ UNCHANGED <<version, clock, store, handlers, received, history>>

\* a millisecond passes
Tick ==
    /\ clock < MaxClock
    /\ clock' = clock + 1
    /\ UNCHANGED <<version, store, handlers, connected, received, history>>

(* ---------------------- GET /api/chat-history/:uid ---------------------- *)

\* a find without its filter, Message.find({}): every Message
MessagesOfAnyChat(ms, chat) == 1..Len(ms)

\* Message.find({ chatId }): the ids of the Messages of a Chat
MessagesOf(ms, chat) == { i \in 1..Len(ms) : ms[i].chatId = chat }

\* .sort({ createdAt: 1 }): every order of the ids in S with createdAt
\* ascending.  The sort key is not unique (createdAt has millisecond
\* resolution) and the store leaves the order of documents with equal keys
\* open, also between two runs of the same query.
RECURSIVE SortByCreatedAt(_, _)
SortByCreatedAt(ms, S) ==
    IF S = {} THEN {<<>>}
    ELSE UNION { { <<m>> \o rest : rest \in SortByCreatedAt(ms, S \ {m}) } :
                 m \in { x \in S : \A y \in S : ms[x].createdAt <= ms[y].createdAt } }

\* rawMessages.map(msg => ({ id, content, senderType, senderName, timestamp }))
FormatAll(ms, ids) == [k \in 1..Len(ids) |-> FormatMessage(ids[k], ms[ids[k]])]

\* if (!uid) return res.status(400)
HistoryBadRequest ==
    /\ hreq.pc = "idle"
    /\ hres' = [uid |-> "", status |-> 400, body |-> <<>>]
    /\ UNCHANGED <<version, clock, store, handlers, connected, received, hreq>>

\* a request for uid arrives; await Chat.findOne({ userId: uid })
HistoryFindOne(uid) ==
    /\ hreq.pc = "idle"
    /\ \/ \E found \in ChatsOf(chats, uid) :
            /\ hreq' = [pc |-> "find", uid |-> uid, chat |-> found]
            /\ hres' = hres
       \/ /\ ChatsOf(chats, uid) = {}
          /\ hres' = [uid |-> uid, status |-> 200, body |-> <<>>]
          /\ hreq' = hreq
       \/ /\ hres' = [uid |-> uid, status |-> 500, body |-> <<>>]
          /\ hreq' = hreq
    /\ UNCHANGED <<version, clock, store, handlers, connected, received>>

\* await Message.find({ chatId: chat._id }).sort({ createdAt: 1 }); res.json
HistoryFind ==
    /\ hreq.pc = "find"
    /\ \/ \E ids \in SortByCreatedAt(messages, MessagesOf(messages, hreq.chat)) :
            hres' = [uid |-> hreq.uid, status |-> 200, body |-> FormatAll(messages, ids)]
       \/ hres' = [uid |-> hreq.uid, status |-> 500, body |-> <<>>]
    /\ hreq' = IdleRequest
    /\ UNCHANGED <<version, clock, store, handlers, connected, received>>

(* --------------------------- specifications ---------------------------- *)

\* the steps of the send_message handlers
HandlerNext ==
    \/ \E e \in 1..Len(handlers) : FindOne(e)
    \/ \E e \in 1..Len(handlers) : CreateChat(e)
    \/ \E e \in 1..Len(handlers) : SaveChat(e)
    \/ \E e \in 1..Len(handlers) : SaveUserMsg(e)
    \/ \E e \in 1..Len(handlers) : Generate(e)
    \/ \E e \in 1..Len(handlers) : SaveAiMsg(e)

\* the real-time path: events on every socket, disconnections
Next ==
    \/ \E c \in Conns, data \in Payloads : Arrive(c, data)
    \/ HandlerNext
    \/ \E c \in Conns : Disconnect(c)
    \/ Tick

Spec == Init /\ [][Next]_vars

\* every store call and every generation call returns or fails, so a
\* handler that waits on one takes its next step
FairSpec == Spec /\ WF_vars(HandlerNext)

\* the history route over a store that send_message events fill.  Which
\* socket carries an event changes nothing in the store, so the events
\* arrive on one socket here.
HistNext ==
    \/ \E data \in Payloads : Arrive("s1", data)
    \/ HandlerNext
    \/ Tick
    \/ HistoryBadRequest
    \/ \E uid \in HistoryUids : HistoryFindOne(uid)
    \/ HistoryFind

HistSpec == Init /\ [][HistNext]_vars

(* ------------------------------ claims --------------------------------- *)

\* the events received so far
Events == 1..Len(handlers)

\* a payload with uid, email or content missing or empty
Incomplete(data) == data.uid = "" \/ data.email = "" \/ data.content = ""

\* the replies delivered for event e, on any socket
RepliesOf(e) == UNION { { r.msg : r \in { x \in received[s] : x.ev = e } } : s \in Conns }

\* C1: for every user identity, under every interleaving of the handlers,
\* the Chat collection holds at most one document with that userId.
C1_SingleThread ==
    \A i, j \in 1..Len(chats) : chats[i].userId = chats[j].userId => i = j

\* two handlers of one uid both found no Chat; one has created it, the other
\* is about to create
C1_Witness ==
    \E e, f \in Events :
        /\ e # f
        /\ handlers[e].data.uid = handlers[f].data.uid
        /\ handlers[e].pc = "create"
        /\ handlers[f].chat # NoChat
        /\ handlers[f].failedAt = "none"
        /\ handlers[f].writes > 0
        /\ \E i \in 1..Len(chats) : chats[i].userId = handlers[e].data.uid

\* C3: an event whose uid, email or content is missing or empty leaves the
\* store unchanged on arrival and ever after (no Chat found, created or
\* saved, no Message written), calls no generator and emits nothing.
C3_DropOnInvalid ==
    /\ [](\A e \in Events :
            Incomplete(handlers[e].data) =>
                /\ handlers[e].pc = "dropped"
                /\ handlers[e].chat = NoChat
                /\ handlers[e].writes = 0
                /\ handlers[e].gen = "none"
                /\ handlers[e].emits = 0
                /\ RepliesOf(e) = {})
    /\ [][(Len(handlers') > Len(handlers)
             /\ Incomplete(handlers'[Len(handlers')].data))
          => UNCHANGED <<store, received>>]_vars

\* an event without content was dropped while the store holds a thread
C3_Witness ==
    \E e \in Events :
        /\ handlers[e].data.content = ""
        /\ handlers[e].pc = "dropped"
        /\ Len(chats) > 0

\* a well-formed fallback reply: the fixed apology, a sender kind, a sender
\* name, a synthesized identifier and a timestamp
IsFallback(r) ==
    /\ r.content = ApologyText
    /\ r.content # ""
    /\ r.senderType = "ai"
    /\ r.senderName # ""
    /\ r.id[1] = "temp_error_"
    /\ r.timestamp \in 0..MaxClock

\* C2: when the generation call of a validated event fails, no assistant
\* Message is written for the exchange and the fallback reply is emitted.
C2_FallbackOnGenerationFailure ==
    \A e \in Events :
        handlers[e].failedAt = "generate" =>
            /\ handlers[e].aiMsg = NoMessage
            /\ handlers[e].emits = 1
            /\ IsFallback(handlers[e].reply)

\* C4: every validated event has exactly one receive_message emitted once
\* its handling has finished, and never two.
C4_ExactlyOneReply ==
    \A e \in Events :
        ~Incomplete(handlers[e].data) =>
            /\ handlers[e].emits <= 1
            /\ (handlers[e].pc = "done" => handlers[e].emits = 1)

\* C5 as stated: a validated event makes at most two store writes, the user
\* Message among them whenever the pipeline got to the generation call, the
\* assistant Message only after a generation that succeeded.
C5_AtMostTwoWrites ==
    \A e \in Events :
        ~Incomplete(handlers[e].data) =>
            /\ handlers[e].writes <= 2
            /\ (handlers[e].gen # "none" => handlers[e].userMsg # NoMessage)
            /\ (handlers[e].aiMsg # NoMessage => handlers[e].gen = "ok")

\* the number of Messages the handlers have written
RECURSIVE MessagesWritten(_)
MessagesWritten(n) ==
    IF n = 0 THEN 0
    ELSE MessagesWritten(n - 1)
         + (IF handlers[n].userMsg # NoMessage THEN 1 ELSE 0)
         + (IF handlers[n].aiMsg # NoMessage THEN 1 ELSE 0)

\* C5, amended: a validated event makes at most three store writes: one
\* Chat write (create or save), then the user Message, then the assistant
\* Message, each only after the one before succeeded; the assistant Message
\* is written only after a generation that succeeded, an event that runs
\* without a failure makes all three, and the store holds no Message beyond
\* these.
C5_AtMostThreeWrites ==
    /\ Len(messages) = MessagesWritten(Len(handlers))
    /\ \A e \in Events :
        LET h == handlers[e]
            u == IF h.userMsg # NoMessage THEN 1 ELSE 0
            a == IF h.aiMsg # NoMessage THEN 1 ELSE 0 IN
        /\ h.writes <= 3
        /\ u + a <= h.writes
        /\ h.writes <= 1 + u + a
        /\ (u = 1 => h.writes >= 2 /\ messages[h.userMsg].senderType = "user")
        /\ (h.gen # "none" => u = 1)
        /\ (a = 1 => u = 1 /\ h.writes = 3 /\ h.gen = "ok"
                     /\ messages[h.aiMsg].senderType = "ai")
        /\ (h.pc = "done" /\ h.failedAt = "none" => h.writes = 3)
        /\ (h.failedAt = "generate" => a = 0 /\ h.writes = 2)

\* an event ran to its end without failure: three store writes
C5_Witness ==
    \E e \in Events :
        /\ handlers[e].pc = "done"
        /\ handlers[e].failedAt = "none"
        /\ handlers[e].writes = 3
        /\ handlers[e].aiMsg # NoMessage

\* C6: within one event the user Message is committed before the generation
\* call starts, the generation has succeeded before the assistant Message is
\* written, and the assistant Message is written before the reply built from
\* it is emitted.
C6_StepOrder ==
    \A e \in Events :
        LET h == handlers[e] IN
        /\ (h.gen # "none" =>
                /\ h.userMsg \in 1..Len(messages)
                /\ messages[h.userMsg].senderType = "user"
                /\ messages[h.userMsg].content = h.data.content
                /\ messages[h.userMsg].senderUid = h.data.uid)
        /\ (h.pc \in {"generate", "aiMsg"} => h.userMsg # NoMessage)
        /\ (h.aiMsg # NoMessage =>
                /\ h.gen = "ok"
                /\ h.aiMsg \in 1..Len(messages)
                /\ h.aiMsg > h.userMsg
                /\ messages[h.aiMsg].content = h.aiText)
        /\ \A r \in RepliesOf(e) \cup (IF h.emits > 0 THEN {h.reply} ELSE {}) :
                ~IsFallback(r) =>
                    /\ h.aiMsg # NoMessage
                    /\ r = FormatMessage(h.aiMsg, messages[h.aiMsg])

\* an exchange went through all four steps and its reply was delivered
C6_Witness ==
    \E e \in Events :
        /\ handlers[e].pc = "done"
        /\ handlers[e].aiMsg # NoMessage
        /\ \E r \in received[handlers[e].conn] : r.ev = e /\ ~IsFallback(r.msg)

\* the steps of the pipeline that call the store
StoreSteps == {"findOne", "create", "save", "userMsg", "aiMsg"}

\* C7: when a store operation of a validated event fails, no later step of
\* the pipeline is done, the fixed fallback reply is emitted and no reply
\* built from a generated text is; a failed user-message write means the
\* generator is never called.
C7_StoreFailureFallback ==
    \A e \in Events :
        LET h == handlers[e] IN
        h.failedAt \in StoreSteps =>
            /\ h.pc = "done"
            /\ (h.failedAt \in {"findOne", "create", "save"} =>
                    h.userMsg = NoMessage /\ h.gen = "none")
            /\ (h.failedAt = "userMsg" => h.userMsg = NoMessage /\ h.gen = "none")
            /\ h.aiMsg = NoMessage
            /\ h.emits = 1
            /\ IsFallback(h.reply)
            /\ \A r \in RepliesOf(e) : IsFallback(r)

\* C8: every validated event is eventually answered by a receive_message
\* and its handler terminates.
C8_EventuallyAnswered ==
    \A e \in 1..MaxEvents :
        (e <= Len(handlers) /\ ~Incomplete(handlers[e].data))
            ~> (e <= Len(handlers) /\ handlers[e].pc = "done" /\ handlers[e].emits >= 1)

\* the place of the Message with _id `id` in a history body, 0 if absent
PosOf(body, id) ==
    IF \E k \in 1..Len(body) : body[k].id = ObjectIdToString(id)
    THEN CHOOSE k \in 1..Len(body) : body[k].id = ObjectIdToString(id)
    ELSE 0

\* C9: a history read returns the Messages of the Thread in nondecreasing
\* creation-timestamp order, and the user Message of every exchange whose
\* assistant Message was persisted comes before that assistant Message.
C9_HistoryOrdered ==
    hres.status = 200 =>
        /\ \A i, j \in 1..Len(hres.body) :
               i < j => hres.body[i].timestamp <= hres.body[j].timestamp
        /\ \A e \in Events :
               (handlers[e].aiMsg # NoMessage /\ PosOf(hres.body, handlers[e].aiMsg) # 0) =>
                   /\ PosOf(hres.body, handlers[e].userMsg) # 0
                   /\ PosOf(hres.body, handlers[e].userMsg)
                          < PosOf(hres.body, handlers[e].aiMsg)

\* a step of the history route
HistoryStep == hreq' # hreq \/ (hres' # hres /\ hres'.status # 0)

\* C10: a history call changes no Chat and no Message, and two history calls
\* for one uid with no store write between them return the same sequence.
C10_HistoryReadOnlyIdempotent ==
    [][HistoryStep =>
          /\ store' = store
          /\ ((hres.status = 200 /\ hres'.status = 200 /\ hres'.uid = hres.uid)
                 => hres'.body = hres.body)]_vars

\* the _ids of the Messages that belong to a Chat of user uid
ThreadMessages(uid) ==
    { i \in 1..Len(messages) :
        \E c \in 1..Len(chats) : chats[c].userId = uid /\ messages[i].chatId = c }

\* C11: a history call for uid answers 200 with exactly the Messages of
\* uid's Thread, each once and each projected from its document, none of
\* another Thread; and with the empty sequence when uid has no Thread.
C11_HistoryExact ==
    hres.status = 200 =>
        /\ Len(hres.body) = Cardinality(ThreadMessages(hres.uid))
        /\ \A i \in ThreadMessages(hres.uid) :
               \E k \in 1..Len(hres.body) :
                   hres.body[k] = [id |-> ObjectIdToString(i),
                                   content |-> messages[i].content,
                                   senderType |-> messages[i].senderType,
                                   senderName |-> messages[i].senderName,
                                   timestamp |-> messages[i].createdAt]
        /\ ((\A c \in 1..Len(chats) : chats[c].userId # hres.uid) => hres.body = <<>>)

\* a non-empty history was returned while the store also holds a Message
\* of another Thread
C11_Witness ==
    /\ hres.status = 200
    /\ hres.body # <<>>
    /\ ThreadMessages(hres.uid) # 1..Len(messages)

\* all events so far are validated events of one uid, handled one after
\* another, each to its end
Sequential ==
    /\ Len(handlers) >= 1
    /\ \A e \in Events :
        /\ ~Incomplete(handlers[e].data)
        /\ handlers[e].data.uid = handlers[1].data.uid
        /\ handlers[e].idle
        /\ handlers[e].pc = "done"

\* the store after n exchanges of one uid: one Chat, 2n Messages alternating
\* user and assistant, each event answered with its generated text
Alternating ==
    /\ Len(chats) = 1
    /\ chats[1].userId = handlers[1].data.uid
    /\ Len(messages) = 2 * Len(handlers)
    /\ \A e \in Events :
        /\ messages[2 * e - 1].senderType = "user"
        /\ messages[2 * e - 1].content = handlers[e].data.content
        /\ messages[2 * e].senderType = "ai"
        /\ messages[2 * e].content = handlers[e].aiText
        /\ handlers[e].emits = 1
        /\ handlers[e].reply.content = handlers[e].aiText
        /\ handlers[e].reply.id = ObjectIdToString(2 * e)

\* C12 as stated: after n events of one uid handled one after another, the
\* generator succeeding each time and the store never at fault, there is one
\* Thread and 2n alternating Messages, every reply carries the generated
\* text, and for n >= 2 the last-activity timestamp is later than after the
\* first event.
C12_SequentialExchanges ==
    (Sequential /\ \A e \in Events :
                      /\ handlers[e].gen = "ok"
                      /\ handlers[e].error \in {"none", "validation"}) =>
        /\ Alternating
        /\ (Len(handlers) >= 2 => chats[1].lastMessageAt > chats[1].createdAt)

\* C12, amended: the same when the generator returned a non-empty text each
\* time, with the last-activity timestamp not earlier than the creation time
\* of the assistant Message of the exchange before the last (so not earlier
\* than after the first event).
C12_SequentialExchangesNonEmpty ==
    (Sequential /\ \A e \in Events :
                      /\ handlers[e].gen = "ok"
                      /\ handlers[e].aiText # ""
                      /\ handlers[e].error = "none") =>
        /\ Alternating
        /\ (Len(handlers) >= 2 =>
                /\ chats[1].lastMessageAt >= messages[2 * (Len(handlers) - 1)].createdAt
                /\ chats[1].lastMessageAt >= chats[1].createdAt)

\* two exchanges of one uid, one after the other, the clock having advanced
C12_Witness ==
    /\ Sequential
    /\ Len(handlers) = 2
    /\ \A e \in Events : handlers[e].error = "none" /\ handlers[e].aiText # ""
    /\ Len(messages) = 4
    /\ chats[1].lastMessageAt > chats[1].createdAt

\* C13: every receive_message, generated or fallback, is delivered only to
\* the socket its event arrived on, also when two sockets use one uid.
C13_ReplyToOrigin ==
    \A s \in Conns : \A r \in received[s] :
        /\ r.ev \in Events
        /\ handlers[r.ev].conn = s
        /\ handlers[r.ev].emits >= 1
        /\ r.msg = handlers[r.ev].reply

\* two sockets sent events for one uid and each got its own reply
C13_Witness ==
    \E e, f \in Events :
        /\ handlers[e].conn # handlers[f].conn
        /\ handlers[e].data.uid = handlers[f].data.uid
        /\ \E r \in received[handlers[e].conn] : r.ev = e
        /\ \E r \in received[handlers[f].conn] : r.ev = f

\* C14: an event with uid, email and content but no senderName passes
\* validation and is handled like any valid event: its user Message is
\* accepted, with a generic default display name, and the pipeline goes on.
C14_OptionalSenderName ==
    \A e \in Events :
        LET h == handlers[e] IN
        (~Incomplete(h.data) /\ h.data.senderName = "") =>
            /\ h.pc # "dropped"
            /\ ~(h.failedAt = "userMsg" /\ h.error = "validation")
            /\ (h.userMsg # NoMessage =>
                    /\ messages[h.userMsg].senderName # ""
                    /\ messages[h.userMsg].senderName = DefaultSenderName)

\* C15: every Message in the store has non-empty content; when the
\* generator succeeds with an empty text no assistant Message is persisted
\* and the fixed fallback reply is emitted.
C15_NonEmptyContent ==
    /\ \A i \in 1..Len(messages) : messages[i].content # ""
    /\ \A e \in Events :
        LET h == handlers[e] IN
        (h.gen = "ok" /\ h.aiText = "" /\ h.pc = "done") =>
            /\ h.aiMsg = NoMessage
            /\ h.emits = 1
            /\ IsFallback(h.reply)

\* the replies emitted or delivered for event e
EmittedOf(e) == RepliesOf(e) \cup (IF handlers[e].emits > 0 THEN {handlers[e].reply} ELSE {})

\* C16: a receive_message that is not the fallback carries the id and the
\* content of an assistant Message persisted in the Thread of the event's
\* uid; a fallback carries an id that no persisted Message has.
C16_ReplyIdentifiers ==
    \A e \in Events : \A r \in EmittedOf(e) :
        IF IsFallback(r)
        THEN \A i \in 1..Len(messages) : r.id # ObjectIdToString(i)
        ELSE \E i \in 1..Len(messages) :
                /\ r.id = ObjectIdToString(i)
                /\ r.content = messages[i].content
                /\ messages[i].senderType = "ai"
                /\ messages[i].chatId \in ChatsOf(chats, handlers[e].data.uid)

\* one event was answered with its assistant Message, another with the
\* fallback
C16_Witness ==
    \E e, f \in Events :
        /\ \E r \in RepliesOf(e) : ~IsFallback(r)
        /\ \E r \in RepliesOf(f) : IsFallback(r)
        /\ Len(messages) >= 2

\* C17: when the socket of an event disconnects while the event is handled,
\* the handler goes on as it would have: a step it takes delivers nothing to
\* any socket, the emit on the closed socket is no failure (a handler that
\* persisted its assistant Message ends without entering the catch block,
\* with one emit), and the Messages are persisted as for a connected socket.
C17_DisconnectTolerated ==
    /\ [](\A e \in Events :
            LET h == handlers[e] IN
            /\ (h.aiMsg # NoMessage =>
                    /\ h.pc = "done"
                    /\ h.failedAt = "none"
                    /\ h.emits = 1
                    /\ h.userMsg \in 1..Len(messages)
                    /\ h.aiMsg \in 1..Len(messages))
            /\ (h.pc = "done" /\ h.failedAt = "none" =>
                    h.userMsg # NoMessage /\ h.aiMsg # NoMessage)
            /\ (h.conn \notin connected /\ h.emits = 0 => RepliesOf(e) = {}))
    /\ [][\A e \in Events :
            (handlers'[e] # handlers[e] /\ handlers[e].conn \notin connected)
                => received' = received]_vars

\* a handler whose socket had disconnected ran to its end without failure:
\* both Messages persisted, one emit, nothing delivered
C17_Witness ==
    \E e \in Events :
        /\ handlers[e].conn \notin connected
        /\ handlers[e].pc = "done"
        /\ handlers[e].failedAt = "none"
        /\ handlers[e].aiMsg # NoMessage
        /\ handlers[e].emits = 1
        /\ RepliesOf(e) = {}

\* C18: an event for a uid that has a Thread changes nothing of that Thread
\* but lastMessageAt (userEmail and status stay as created, whatever email
\* the event carries), and changes no other Thread.
C18_OnlyLastActivity ==
    [][/\ Len(chats') >= Len(chats)
       /\ \A i \in 1..Len(chats) :
            /\ chats'[i].userId = chats[i].userId
            /\ chats'[i].userEmail = chats[i].userEmail
            /\ chats'[i].status = chats[i].status
            /\ chats'[i].createdAt = chats[i].createdAt
            /\ (chats'[i] # chats[i] =>
                    /\ \E e \in Events :
                          /\ handlers[e].pc = "save"
                          /\ handlers'[e].pc = "userMsg"
                          /\ handlers[e].chat = i
                          /\ handlers[e].data.uid = chats[i].userId
                          /\ chats'[i].lastMessageAt = handlers[e].t
                    /\ \A j \in 1..Len(chats) : j # i => chats'[j] = chats[j])]_vars

\* an event with another email was handled on an existing Thread: the
\* last-activity timestamp moved, the stored email did not
C18_Witness ==
    \E e \in Events : \E i \in 1..Len(chats) :
        /\ handlers[e].chat = i
        /\ handlers[e].pc = "done"
        /\ handlers[e].failedAt = "none"
        /\ handlers[e].data.email # chats[i].userEmail
        /\ chats[i].status = DefaultStatus
        /\ chats[i].lastMessageAt > chats[i].createdAt

\* C19: of two handlers of one never-seen uid that both looked up the
\* Thread before either created it, one creates it; the other fails at
\* Chat.create, writes no Message, calls no generator and emits the fallback
\* reply to its own socket.
C19_CreateRace ==
    \A e \in Events :
        LET h == handlers[e] IN
        (h.failedAt = "create" /\ h.error = "duplicate") =>
            /\ Cardinality(ChatsOf(chats, h.data.uid)) = 1
            /\ \E f \in Events :
                  /\ f # e
                  /\ handlers[f].data.uid = h.data.uid
                  /\ handlers[f].chat \in ChatsOf(chats, h.data.uid)
                  /\ handlers[f].writes >= 1
            /\ h.writes = 0
            /\ h.userMsg = NoMessage
            /\ h.aiMsg = NoMessage
            /\ h.gen = "none"
            /\ h.emits = 1
            /\ IsFallback(h.reply)
            /\ \A s \in Conns \ {h.conn} : \A r \in received[s] : r.ev # e

====
